---- MODULE Spec2Model ----
(***************************************************************************)
(* Model of the debounced alarm state machine of rt-monitor-simulator      *)
(* (src/src/app/app.py): App.__init__, App._transition and App.tick, with  *)
(* the per-tick sensor resolution over the fault list, driven by a         *)
(* SimClock (src/src/sim/clock.py).                                        *)
(***************************************************************************)
EXTENDS Integers, Sequences, FiniteSets, TLC

(* ------------------------------ bounds -------------------------------- *)
\* largest debounce count (alarm_raise_after, alarm_clear_after) explored
MaxAfter == 3
\* number of tick calls explored on one App instance
MaxTicks == 6
\* longest fault list handed to one tick call
MaxFaults == 2

(* ------------------------- program constants -------------------------- *)
\* AppConfig.tick_ms default
TickMs == 10
\* AppConfig.sensor_alarm_threshold default
SensorAlarmThreshold == 1000
\* the nominal baseline reading of App.tick
NominalBaseline == 500

(* ------------------------------ AlarmState ---------------------------- *)
NOMINAL == "NOMINAL"
PENDING_RAISE == "PENDING_RAISE"
ALARMED == "ALARMED"
PENDING_CLEAR == "PENDING_CLEAR"

AlarmState == {NOMINAL, PENDING_RAISE, ALARMED, PENDING_CLEAR}

\* App._LEGAL_TRANSITIONS
LEGAL_TRANSITIONS ==
  [s \in AlarmState |->
     CASE s = NOMINAL -> {NOMINAL, PENDING_RAISE, ALARMED}
       [] s = PENDING_RAISE -> {PENDING_RAISE, NOMINAL, ALARMED}
       [] s = ALARMED -> {ALARMED, PENDING_CLEAR}
       [] s = PENDING_CLEAR -> {PENDING_CLEAR, NOMINAL, ALARMED, PENDING_RAISE}]

(* ------------------------------- inputs ------------------------------- *)
\* values carried by sensor_spike faults: below and at the (inclusive) threshold
SpikeValues == {900, 1000}

\* Fault(tick, kind, value); App.tick never reads f.tick (the unit tests pass 0)
Fault(kind, value) == [tick |-> 0, kind |-> kind, value |-> value]

Faults ==
  {Fault("dropout", 1), Fault("noise", 1)}
    \cup {Fault("sensor_spike", v) : v \in SpikeValues}

RECURSIVE SeqsUpTo(_, _)
SeqsUpTo(S, n) ==
  IF n = 0 THEN {<<>>}
  ELSE LET shorter == SeqsUpTo(S, n - 1)
       IN shorter \cup {Append(q, x) : q \in {r \in shorter : Len(r) = n - 1}, x \in S}

FaultLists == SeqsUpTo(Faults, MaxFaults)

(* ------------------------------ LogEvent ------------------------------ *)
\* LogEvent(t_ms, level, code, msg); msg is the record of the fields that the
\* f-string of the source formats into the message text
LogEvent(t, level, code, msg) ==
  [t_ms |-> t, level |-> level, code |-> code, msg |-> msg]

Codes(evs) == [i \in 1..Len(evs) |-> evs[i].code]
HasCode(evs, c) == \E i \in 1..Len(evs) : evs[i].code = c
CountCode(evs, c) == Cardinality({i \in 1..Len(evs) : evs[i].code = c})

(* ------------------------------- AppConfig ---------------------------- *)
AppConfig(raiseAfter, clearAfter) ==
  [tick_ms |-> TickMs,
   sensor_alarm_threshold |-> SensorAlarmThreshold,
   alarm_raise_after |-> raiseAfter,
   alarm_clear_after |-> clearAfter]

\* App.__init__
NewApp(cfg) ==
  [cfg |-> cfg, tick_count |-> 0, state |-> NOMINAL,
   raise_streak |-> 0, clear_streak |-> 0]

(* ----------------------------- App._transition ------------------------ *)
\* Mutant of Transition: the early return for to_state == from_state is
\* missing, so a no-op transition is logged too.
TransitionAlwaysLogs(m, now, to_state, reason) ==
  [m |-> [m EXCEPT !.state = to_state],
   events |-> <<LogEvent(now, "INFO", "STATE_TRANSITION",
                         [from |-> m.state, to |-> to_state, reason |-> reason])>>,
   ok |-> to_state \in LEGAL_TRANSITIONS[m.state],
   attempt |-> <<[from |-> m.state, to |-> to_state]>>]

\* Mutant of Transition: the assertion is missing, so any change of state is
\* made and logged.
TransitionUnchecked(m, now, to_state, reason) ==
  IF to_state = m.state
  THEN [m |-> m, events |-> <<>>, ok |-> TRUE,
        attempt |-> <<[from |-> m.state, to |-> to_state]>>]
  ELSE [m |-> [m EXCEPT !.state = to_state],
        events |-> <<LogEvent(now, "INFO", "STATE_TRANSITION",
                              [from |-> m.state, to |-> to_state, reason |-> reason])>>,
        ok |-> TRUE,
        attempt |-> <<[from |-> m.state, to |-> to_state]>>]

\* The outcome of one _transition call on machine m: the machine afterwards,
\* the events it returns, ok = FALSE when the assertion fails (AssertionError
\* propagates, state untouched), and the attempted (from, to) pair.
Transition(m, now, to_state, reason) ==
  IF to_state = m.state
  THEN [m |-> m, events |-> <<>>, ok |-> TRUE,
        attempt |-> <<[from |-> m.state, to |-> to_state]>>]
  ELSE IF to_state \notin LEGAL_TRANSITIONS[m.state]
  THEN [m |-> m, events |-> <<>>, ok |-> FALSE,
        attempt |-> <<[from |-> m.state, to |-> to_state]>>]
  ELSE [m |-> [m EXCEPT !.state = to_state],
        events |-> <<LogEvent(now, "INFO", "STATE_TRANSITION",
                              [from |-> m.state, to |-> to_state, reason |-> reason])>>,
        ok |-> TRUE,
        attempt |-> <<[from |-> m.state, to |-> to_state]>>]

\* a branch that makes no _transition call
NoTransition(m) == [m |-> m, events |-> <<>>, ok |-> TRUE, attempt |-> <<>>]

\* events.extend(self._transition(...)); events.append(ev)
ThenAppend(tr, ev) == [tr EXCEPT !.events = Append(@, ev)]

(* ------------------------------ App.tick ------------------------------ *)
\* Mutant of TickPrologue: the APP_TICK append is missing.
TickPrologueMissing(m, now) == <<>>

\* events = [APP_TICK] : the list after the unconditional first append
TickPrologue(m, now) ==
  <<LogEvent(now, "INFO", "APP_TICK", [tick |-> m.tick_count])>>

\* the sensor reading: present with a value, or absent (None)
Present(v) == [present |-> TRUE, value |-> v]
Absent == [present |-> FALSE, value |-> 0]

\* the loop over the faults: each dropout sets None, each sensor_spike sets
\* the value, in list order; other kinds leave the reading alone
RECURSIVE ResolveFrom(_, _)
ResolveFrom(sensor_value, faults) ==
  IF faults = <<>> THEN sensor_value
  ELSE LET f == Head(faults)
           nxt == IF f.kind = "dropout" THEN Absent
                  ELSE IF f.kind = "sensor_spike" THEN Present(f.value)
                  ELSE sensor_value
       IN ResolveFrom(nxt, Tail(faults))

\* Mutant of Resolve: the loop has else for elif, so a fault of any kind
\* other than dropout sets the value.
RECURSIVE ResolveFromKindBlind(_, _)
ResolveFromKindBlind(sensor_value, faults) ==
  IF faults = <<>> THEN sensor_value
  ELSE LET f == Head(faults)
           nxt == IF f.kind = "dropout" THEN Absent ELSE Present(f.value)
       IN ResolveFromKindBlind(nxt, Tail(faults))

ResolveKindBlind(faults) == ResolveFromKindBlind(Present(NominalBaseline), faults)

\* sensor_value after the loop, from the nominal baseline
Resolve(faults) == ResolveFrom(Present(NominalBaseline), faults)


\* Mutant of DropoutBranch: no idempotent case for ALARMED, so every dropout
\* tick appends ALARM_RAISED.
DropoutBranchNoIdempotence(m, now) ==
  LET m0 == [m EXCEPT !.raise_streak = 0, !.clear_streak = 0]
      raisedEv == LogEvent(now, "ERROR", "ALARM_RAISED", [reason |-> "sensor_dropout"])
  IN IF m0.state = PENDING_CLEAR
     THEN ThenAppend(Transition(m0, now, ALARMED, "dropout_returned"), raisedEv)
     ELSE ThenAppend(Transition(m0, now, ALARMED, "dropout_immediate"), raisedEv)

\* Mutant of DropoutBranch: a dropout while PENDING_CLEAR first closes the
\* pending clear with ALARM_CLEARED and then raises again.
DropoutBranchClosesClear(m, now) ==
  LET m0 == [m EXCEPT !.raise_streak = 0, !.clear_streak = 0]
      raisedEv == LogEvent(now, "ERROR", "ALARM_RAISED", [reason |-> "sensor_dropout"])
      clearedEv == LogEvent(now, "INFO", "ALARM_CLEARED", [reason |-> "nominal"])
  IN IF m0.state = PENDING_CLEAR
     THEN ThenAppend(
            ThenAppend(Transition(m0, now, ALARMED, "dropout_returned"), clearedEv),
            raisedEv)
     ELSE IF m0.state = ALARMED
     THEN NoTransition(m0)
     ELSE ThenAppend(Transition(m0, now, ALARMED, "dropout_immediate"), raisedEv)

\* Mutant of DropoutBranch: the two streak resets are missing.
DropoutBranchKeepsStreaks(m, now) ==
  LET raisedEv == LogEvent(now, "ERROR", "ALARM_RAISED", [reason |-> "sensor_dropout"])
  IN IF m.state = PENDING_CLEAR
     THEN ThenAppend(Transition(m, now, ALARMED, "dropout_returned"), raisedEv)
     ELSE IF m.state = ALARMED
     THEN NoTransition(m)
     ELSE ThenAppend(Transition(m, now, ALARMED, "dropout_immediate"), raisedEv)

\* 1) Dropout: immediate alarm condition (sensor_value is None)
DropoutBranch(m, now) ==
  LET m0 == [m EXCEPT !.raise_streak = 0, !.clear_streak = 0]
      raisedEv == LogEvent(now, "ERROR", "ALARM_RAISED", [reason |-> "sensor_dropout"])
  IN IF m0.state = PENDING_CLEAR
     THEN ThenAppend(Transition(m0, now, ALARMED, "dropout_returned"), raisedEv)
     ELSE IF m0.state = ALARMED
     THEN NoTransition(m0)
     ELSE ThenAppend(Transition(m0, now, ALARMED, "dropout_immediate"), raisedEv)

PendingRaiseEvent(m, now, v) ==
  LogEvent(now, "WARN", "ALARM_PENDING_RAISE",
           [reason |-> "sensor_spike", streak |-> m.raise_streak,
            needed |-> m.cfg.alarm_raise_after, value |-> v])

\* Mutant of RaiseStillPending: off by one (<= for <).
RaiseStillPendingOffByOne(m) == m.raise_streak <= m.cfg.alarm_raise_after

\* if self._raise_streak < self._cfg.alarm_raise_after
RaiseStillPending(m) == m.raise_streak < m.cfg.alarm_raise_after

\* Mutant of RaiseDebounce: the commit leaves the raise streak as counted.
RaiseDebounceKeepsStreak(m0, now, v) ==
  LET m1 == [m0 EXCEPT !.raise_streak = @ + 1]
  IN IF RaiseStillPending(m1)
     THEN ThenAppend(Transition(m1, now, PENDING_RAISE, "raise_pending"),
                     PendingRaiseEvent(m1, now, v))
     ELSE ThenAppend(
            Transition(m1, now, ALARMED, "raise_committed"),
            LogEvent(now, "ERROR", "ALARM_RAISED",
                     [reason |-> "sensor_spike", value |-> v]))

\* the debounced raise path (state NOMINAL or PENDING_RAISE)
RaiseDebounce(m0, now, v) ==
  LET m1 == [m0 EXCEPT !.raise_streak = @ + 1]
  IN IF RaiseStillPending(m1)
     THEN ThenAppend(Transition(m1, now, PENDING_RAISE, "raise_pending"),
                     PendingRaiseEvent(m1, now, v))
     ELSE ThenAppend(
            Transition([m1 EXCEPT !.raise_streak = 0], now, ALARMED,
                       "raise_committed"),
            LogEvent(now, "ERROR", "ALARM_RAISED",
                     [reason |-> "sensor_spike", value |-> v]))

\* Mutant of SpikeBranch: no case for PENDING_CLEAR, which then takes the
\* debounced raise path like NOMINAL and PENDING_RAISE.
SpikeBranchNoPendingClearCase(m, now, v) ==
  LET m0 == [m EXCEPT !.clear_streak = 0]
  IN IF m0.state = ALARMED
     THEN NoTransition([m0 EXCEPT !.raise_streak = 0])
     ELSE RaiseDebounce(m0, now, v)

\* Mutant of SpikeBranch: the clear-streak reset is missing.
SpikeBranchKeepsClearStreak(m, now, v) ==
  IF m.state = PENDING_CLEAR
  THEN LET m1 == [m EXCEPT !.raise_streak = 1]
       IN ThenAppend(Transition(m1, now, PENDING_RAISE, "raise_pending"),
                     PendingRaiseEvent(m1, now, v))
  ELSE IF m.state = ALARMED
  THEN NoTransition([m EXCEPT !.raise_streak = 0])
  ELSE RaiseDebounce(m, now, v)

\* 2) Sensor present, is_alarm_condition (sensor_value >= threshold)
SpikeBranch(m, now, v) ==
  LET m0 == [m EXCEPT !.clear_streak = 0]
  IN IF m0.state = PENDING_CLEAR
     THEN LET m1 == [m0 EXCEPT !.raise_streak = 1]
          IN ThenAppend(Transition(m1, now, PENDING_RAISE, "raise_pending"),
                        PendingRaiseEvent(m1, now, v))
     ELSE IF m0.state = ALARMED
     THEN NoTransition([m0 EXCEPT !.raise_streak = 0])
     ELSE RaiseDebounce(m0, now, v)

\* Mutant of NominalBranch: no case for a machine that is not in alarm, so
\* every below-threshold tick takes the debounced clear path.
NominalBranchNoIdleCase(m, now, v) ==
  LET m0 == [m EXCEPT !.raise_streak = 0]
      m1 == [m0 EXCEPT !.clear_streak = @ + 1]
  IN IF m1.clear_streak < m1.cfg.alarm_clear_after
     THEN ThenAppend(
            Transition(m1, now, PENDING_CLEAR, "clear_pending"),
            LogEvent(now, "INFO", "ALARM_PENDING_CLEAR",
                     [streak |-> m1.clear_streak,
                      needed |-> m1.cfg.alarm_clear_after, value |-> v]))
     ELSE ThenAppend(
            Transition([m1 EXCEPT !.clear_streak = 0], now, NOMINAL,
                       "clear_committed"),
            LogEvent(now, "INFO", "ALARM_CLEARED", [reason |-> "nominal"]))

\* Mutant of NominalBranch: the raise-streak reset is missing.
NominalBranchKeepsRaiseStreak(m, now, v) ==
  LET m0 == m
  IN IF m0.state # ALARMED /\ m0.state # PENDING_CLEAR
     THEN Transition([m0 EXCEPT !.clear_streak = 0], now, NOMINAL, "nominal")
     ELSE LET m1 == [m0 EXCEPT !.clear_streak = @ + 1]
          IN IF m1.clear_streak < m1.cfg.alarm_clear_after
             THEN ThenAppend(
                    Transition(m1, now, PENDING_CLEAR, "clear_pending"),
                    LogEvent(now, "INFO", "ALARM_PENDING_CLEAR",
                             [streak |-> m1.clear_streak,
                              needed |-> m1.cfg.alarm_clear_after, value |-> v]))
             ELSE ThenAppend(
                    Transition([m1 EXCEPT !.clear_streak = 0], now, NOMINAL,
                               "clear_committed"),
                    LogEvent(now, "INFO", "ALARM_CLEARED", [reason |-> "nominal"]))

\* Mutant of NominalBranch: the committed clear emits no ALARM_CLEARED.
NominalBranchSilentClear(m, now, v) ==
  LET m0 == [m EXCEPT !.raise_streak = 0]
  IN IF m0.state # ALARMED /\ m0.state # PENDING_CLEAR
     THEN Transition([m0 EXCEPT !.clear_streak = 0], now, NOMINAL, "nominal")
     ELSE LET m1 == [m0 EXCEPT !.clear_streak = @ + 1]
          IN IF m1.clear_streak < m1.cfg.alarm_clear_after
             THEN ThenAppend(
                    Transition(m1, now, PENDING_CLEAR, "clear_pending"),
                    LogEvent(now, "INFO", "ALARM_PENDING_CLEAR",
                             [streak |-> m1.clear_streak,
                              needed |-> m1.cfg.alarm_clear_after, value |-> v]))
             ELSE Transition([m1 EXCEPT !.clear_streak = 0], now, NOMINAL,
                             "clear_committed")

\* 3) Sensor present, below the threshold
NominalBranch(m, now, v) ==
  LET m0 == [m EXCEPT !.raise_streak = 0]
  IN IF m0.state # ALARMED /\ m0.state # PENDING_CLEAR
     THEN Transition([m0 EXCEPT !.clear_streak = 0], now, NOMINAL, "nominal")
     ELSE LET m1 == [m0 EXCEPT !.clear_streak = @ + 1]
          IN IF m1.clear_streak < m1.cfg.alarm_clear_after
             THEN ThenAppend(
                    Transition(m1, now, PENDING_CLEAR, "clear_pending"),
                    LogEvent(now, "INFO", "ALARM_PENDING_CLEAR",
                             [streak |-> m1.clear_streak,
                              needed |-> m1.cfg.alarm_clear_after, value |-> v]))
             ELSE ThenAppend(
                    Transition([m1 EXCEPT !.clear_streak = 0], now, NOMINAL,
                               "clear_committed"),
                    LogEvent(now, "INFO", "ALARM_CLEARED", [reason |-> "nominal"]))

\* The decision of one tick on the resolved reading
Decide(m, now, sensor_value) ==
  IF ~sensor_value.present THEN DropoutBranch(m, now)
  ELSE IF sensor_value.value >= m.cfg.sensor_alarm_threshold
  THEN SpikeBranch(m, now, sensor_value.value)
  ELSE NominalBranch(m, now, sensor_value.value)

\* App.tick(now_ms, faults): the machine afterwards, the returned event list,
\* and ok = FALSE when the call ends in the AssertionError of _transition
\* (nothing is returned, the counter is not advanced, the streak writes that
\* preceded the assertion stay).
TickCall(m, now, faults) ==
  LET br == Decide(m, now, Resolve(faults))
  IN IF br.ok
     THEN [m |-> [br.m EXCEPT !.tick_count = @ + 1],
           events |-> TickPrologue(m, now) \o br.events,
           ok |-> TRUE, attempt |-> br.attempt]
     ELSE [m |-> br.m, events |-> <<>>, ok |-> FALSE, attempt |-> br.attempt]

(* ------------------- the alternate implementation -------------------- *)
\* App._LEGAL_TRANSITIONS of the alternate: PENDING_CLEAR has no ALARMED
ALT_LEGAL_TRANSITIONS ==
  [s \in AlarmState |->
     CASE s = NOMINAL -> {NOMINAL, PENDING_RAISE, ALARMED}
       [] s = PENDING_RAISE -> {PENDING_RAISE, NOMINAL, ALARMED}
       [] s = ALARMED -> {ALARMED, PENDING_CLEAR}
       [] s = PENDING_CLEAR -> {PENDING_CLEAR, NOMINAL, PENDING_RAISE}]

\* App.__init__ of the alternate, with its legacy boolean _alarm_active
NewAltApp(cfg) ==
  [cfg |-> cfg, tick_count |-> 0, state |-> NOMINAL, alarm_active |-> FALSE,
   raise_streak |-> 0, clear_streak |-> 0]

\* App._transition of the alternate
AltTransition(m, now, to_state, reason) ==
  IF to_state = m.state
  THEN [m |-> m, events |-> <<>>, ok |-> TRUE,
        attempt |-> <<[from |-> m.state, to |-> to_state]>>]
  ELSE IF to_state \notin ALT_LEGAL_TRANSITIONS[m.state]
  THEN [m |-> m, events |-> <<>>, ok |-> FALSE,
        attempt |-> <<[from |-> m.state, to |-> to_state]>>]
  ELSE [m |-> [m EXCEPT !.state = to_state],
        events |-> <<LogEvent(now, "INFO", "STATE_TRANSITION",
                              [from |-> m.state, to |-> to_state, reason |-> reason])>>,
        ok |-> TRUE,
        attempt |-> <<[from |-> m.state, to |-> to_state]>>]

\* Dropout: if not already ALARMED, go to ALARMED immediately, from
\* PENDING_CLEAR too
AltDropoutBranch(m, now) ==
  LET m0 == [m EXCEPT !.raise_streak = 0, !.clear_streak = 0]
      raisedEv == LogEvent(now, "ERROR", "ALARM_RAISED", [reason |-> "sensor_dropout"])
  IN IF m0.state # ALARMED
     THEN ThenAppend(AltTransition(m0, now, ALARMED, "dropout_immediate"), raisedEv)
     ELSE NoTransition(m0)

\* Sensor present, alarm condition; the commit keeps the raise streak
AltSpikeBranch(m, now, v) ==
  IF m.state = PENDING_CLEAR
  THEN LET m1 == [m EXCEPT !.clear_streak = 0, !.raise_streak = 1]
       IN ThenAppend(AltTransition(m1, now, PENDING_RAISE, "raise_pending"),
                     PendingRaiseEvent(m1, now, v))
  ELSE IF m.state = ALARMED
  THEN NoTransition([m EXCEPT !.clear_streak = 0])
  ELSE LET m1 == [m EXCEPT !.clear_streak = 0, !.raise_streak = @ + 1]
       IN IF m1.raise_streak < m1.cfg.alarm_raise_after
          THEN ThenAppend(AltTransition(m1, now, PENDING_RAISE, "raise_pending"),
                          PendingRaiseEvent(m1, now, v))
          ELSE ThenAppend(
                 AltTransition(m1, now, ALARMED, "raise_committed"),
                 LogEvent(now, "ERROR", "ALARM_RAISED",
                          [reason |-> "sensor_spike", value |-> v]))

\* Mutant of AltNominalBranch: the debounced clear path leaves the raise
\* streak as the commit of the raise left it.
AltNominalBranchKeepsRaiseStreak(m, now, v) ==
  IF m.state # ALARMED /\ m.state # PENDING_CLEAR
  THEN AltTransition([m EXCEPT !.raise_streak = 0, !.clear_streak = 0], now,
                     NOMINAL, "nominal")
  ELSE LET m1 == [m EXCEPT !.clear_streak = @ + 1]
       IN IF m1.clear_streak < m1.cfg.alarm_clear_after
          THEN ThenAppend(
                 AltTransition(m1, now, PENDING_CLEAR, "clear_pending"),
                 LogEvent(now, "INFO", "ALARM_PENDING_CLEAR",
                          [streak |-> m1.clear_streak,
                           needed |-> m1.cfg.alarm_clear_after, value |-> v]))
          ELSE ThenAppend(
                 AltTransition(m1, now, NOMINAL, "clear_committed"),
                 LogEvent(now, "INFO", "ALARM_CLEARED", [reason |-> "nominal"]))

\* Sensor present, below the threshold; the commit keeps the clear streak
AltNominalBranch(m, now, v) ==
  IF m.state # ALARMED /\ m.state # PENDING_CLEAR
  THEN AltTransition([m EXCEPT !.raise_streak = 0, !.clear_streak = 0], now,
                     NOMINAL, "nominal")
  ELSE LET m1 == [m EXCEPT !.raise_streak = 0, !.clear_streak = @ + 1]
       IN IF m1.clear_streak < m1.cfg.alarm_clear_after
          THEN ThenAppend(
                 AltTransition(m1, now, PENDING_CLEAR, "clear_pending"),
                 LogEvent(now, "INFO", "ALARM_PENDING_CLEAR",
                          [streak |-> m1.clear_streak,
                           needed |-> m1.cfg.alarm_clear_after, value |-> v]))
          ELSE ThenAppend(
                 AltTransition(m1, now, NOMINAL, "clear_committed"),
                 LogEvent(now, "INFO", "ALARM_CLEARED", [reason |-> "nominal"]))

AltDecide(m, now, sensor_value) ==
  IF ~sensor_value.present THEN AltDropoutBranch(m, now)
  ELSE IF sensor_value.value >= m.cfg.sensor_alarm_threshold
  THEN AltSpikeBranch(m, now, sensor_value.value)
  ELSE AltNominalBranch(m, now, sensor_value.value)

\* App.tick of the alternate: the same APP_TICK append and fault loop, its
\* own decision, then _alarm_active and the counter
AltTickCall(m, now, faults) ==
  LET br == AltDecide(m, now, Resolve(faults))
  IN IF br.ok
     THEN [m |-> [br.m EXCEPT !.alarm_active = (br.m.state = ALARMED),
                              !.tick_count = @ + 1],
           events |-> TickPrologue(m, now) \o br.events,
           ok |-> TRUE, attempt |-> br.attempt]
     ELSE [m |-> br.m, events |-> <<>>, ok |-> FALSE, attempt |-> br.attempt]

(* ------------------------------- SimClock ----------------------------- *)
\* SimClock.advance
Advance(c) == [c EXCEPT !.now_ms = @ + c.tick_ms]

(* ------------------------------- run_app ------------------------------ *)
\* AppConfig with its total_ticks field
RunConfig(raiseAfter, clearAfter, total_ticks) ==
  AppConfig(raiseAfter, clearAfter) @@ [total_ticks |-> total_ticks]

\* Mutant of FaultsAtTick: <= for ==, so a fault is returned again on every
\* later tick.
FaultsAtTickUpTo(scenario, tick) ==
  SelectSeq(scenario, LAMBDA f : f.tick <= tick)

\* ScenarioEngine.faults_at_tick: the scenario's faults of this tick, in
\* scenario order
FaultsAtTick(scenario, tick) ==
  SelectSeq(scenario, LAMBDA f : f.tick = tick)

\* the FAULT_INJECTED event of run_app; msg holds the fields of
\* "kind={fault.kind} value={fault.value} tick={tick}"
FaultInjected(now, fault, tick) ==
  LogEvent(now, "WARN", "FAULT_INJECTED",
           [kind |-> fault.kind, value |-> fault.value, tick |-> tick])

\* for fault in faults: events.append(FAULT_INJECTED)
FaultEvents(now, faults, tick) ==
  [i \in 1..Len(faults) |-> FaultInjected(now, faults[i], tick)]

BootEvent(cfg) ==
  LogEvent(0, "INFO", "BOOT",
           [tick_ms |-> cfg.tick_ms, total_ticks |-> cfg.total_ticks])

ShutdownEvent(now) ==
  LogEvent(now, "INFO", "SHUTDOWN", [reason |-> "completed_ticks"])

(* --------------------------- MetricsCollector ------------------------- *)
\* RunMetrics()
NewRunMetrics ==
  [alarms_raised |-> 0, alarms_cleared |-> 0, alarmed_ms |-> 0, nominal_ms |-> 0,
   faults_injected |-> 0, dropout_faults |-> 0, spike_faults |-> 0,
   clear_durations_ms_total |-> 0, clear_durations_count |-> 0]

\* MetricsCollector.__init__; alarm_start_ms is <<>> for None, <<t>> for t
NewMetricsCollector(tick_ms) ==
  [tick_ms |-> tick_ms, m |-> NewRunMetrics, alarmed |-> FALSE,
   alarm_start_ms |-> <<>>]

\* the kinds whose text starts with another kind's text: "kind=dropout" is a
\* substring of "kind=dropout_partial value=.. tick=.."
KindTextStartsWith(kind, prefix) ==
  \/ kind = prefix
  \/ (kind = "dropout_partial" /\ prefix = "dropout")

\* "kind=<k>" in e.msg, for the message run_app formats as
\* "kind={fault.kind} value={fault.value} tick={tick}"
MsgHasKind(msg, k) == KindTextStartsWith(msg.kind, k)

\* if e.code == "FAULT_INJECTED": the fault counters
ConsumeFault(c, e) ==
  IF e.code = "FAULT_INJECTED"
  THEN [c EXCEPT
          !.m.faults_injected = @ + 1,
          !.m.dropout_faults = IF MsgHasKind(e.msg, "dropout") THEN @ + 1 ELSE @,
          !.m.spike_faults = IF MsgHasKind(e.msg, "sensor_spike") THEN @ + 1 ELSE @]
  ELSE c

\* Mutant of ConsumeRaised: every ALARM_RAISED re-records the window start.
ConsumeRaisedReopens(c, e) ==
  IF e.code = "ALARM_RAISED"
  THEN [c EXCEPT !.m.alarms_raised = @ + 1, !.alarmed = TRUE,
                 !.alarm_start_ms = <<e.t_ms>>]
  ELSE c

\* if e.code == "ALARM_RAISED": count it, open the window if none is open
ConsumeRaised(c, e) ==
  IF e.code = "ALARM_RAISED"
  THEN LET c1 == [c EXCEPT !.m.alarms_raised = @ + 1]
       IN IF ~c1.alarmed
          THEN [c1 EXCEPT !.alarmed = TRUE, !.alarm_start_ms = <<e.t_ms>>]
          ELSE c1
  ELSE c

\* Mutant of ConsumeCleared: the sample count grows with every ALARM_CLEARED,
\* window or not.
ConsumeClearedAlwaysCounts(c, e) ==
  IF e.code = "ALARM_CLEARED"
  THEN LET c1 == [c EXCEPT !.m.alarms_cleared = @ + 1,
                           !.m.clear_durations_count = @ + 1]
           c2 == IF c1.alarmed /\ c1.alarm_start_ms # <<>>
                 THEN [c1 EXCEPT
                         !.m.clear_durations_ms_total =
                            @ + (e.t_ms - c1.alarm_start_ms[1])]
                 ELSE c1
       IN [c2 EXCEPT !.alarmed = FALSE, !.alarm_start_ms = <<>>]
  ELSE c

\* Mutant of ConsumeCleared: the window is not closed (the resets of
\* _alarmed and _alarm_start_ms are missing).
ConsumeClearedLeavesWindowOpen(c, e) ==
  IF e.code = "ALARM_CLEARED"
  THEN LET c1 == [c EXCEPT !.m.alarms_cleared = @ + 1]
       IN IF c1.alarmed /\ c1.alarm_start_ms # <<>>
          THEN [c1 EXCEPT
                  !.m.clear_durations_ms_total =
                     @ + (e.t_ms - c1.alarm_start_ms[1]),
                  !.m.clear_durations_count = @ + 1]
          ELSE c1
  ELSE c

\* if e.code == "ALARM_CLEARED": count it, record the duration of an open
\* window, close the window
ConsumeCleared(c, e) ==
  IF e.code = "ALARM_CLEARED"
  THEN LET c1 == [c EXCEPT !.m.alarms_cleared = @ + 1]
           c2 == IF c1.alarmed /\ c1.alarm_start_ms # <<>>
                 THEN [c1 EXCEPT
                         !.m.clear_durations_ms_total =
                            @ + (e.t_ms - c1.alarm_start_ms[1]),
                         !.m.clear_durations_count = @ + 1]
                 ELSE c1
       IN [c2 EXCEPT !.alarmed = FALSE, !.alarm_start_ms = <<>>]
  ELSE c

\* Mutant of ConsumeTick: the two accounts are swapped.
ConsumeTickSwapped(c, e) ==
  IF e.code = "APP_TICK"
  THEN IF c.alarmed
       THEN [c EXCEPT !.m.nominal_ms = @ + c.tick_ms]
       ELSE [c EXCEPT !.m.alarmed_ms = @ + c.tick_ms]
  ELSE c

\* if e.code == "APP_TICK": one tick period to the current mode's account
ConsumeTick(c, e) ==
  IF e.code = "APP_TICK"
  THEN IF c.alarmed
       THEN [c EXCEPT !.m.alarmed_ms = @ + c.tick_ms]
       ELSE [c EXCEPT !.m.nominal_ms = @ + c.tick_ms]
  ELSE c

\* MetricsCollector.consume: the four if-statements in order
Consume(c, e) ==
  ConsumeTick(ConsumeCleared(ConsumeRaised(ConsumeFault(c, e), e), e), e)

\* MetricsCollector.snapshot
Snapshot(c) == c.m

\* the object snapshot() returns is the collector's own self._m, not a copy
SnapshotObject(c) == "self._m"

\* what the holder of object obj reads once the collector is c: consume
\* updates self._m in place and never rebinds it
Deref(c, obj) == IF obj = "self._m" THEN c.m ELSE NewRunMetrics

\* Mutant of MeanTimeToClearMs: divides by the number of clears, not of samples.
MeanTimeToClearMsPerClear(m) ==
  IF m.alarms_cleared = 0 THEN <<>>
  ELSE <<[num |-> m.clear_durations_ms_total, den |-> m.alarms_cleared]>>

\* RunMetrics.mean_time_to_clear_ms: <<>> for None, otherwise the quotient
\* total / count kept as the exact fraction num / den
MeanTimeToClearMs(m) ==
  IF m.clear_durations_count = 0 THEN <<>>
  ELSE <<[num |-> m.clear_durations_ms_total, den |-> m.clear_durations_count]>>

\* mc = MetricsCollector(tick_ms=cfg.tick_ms) of main
LogCollector(cfg) == NewMetricsCollector(cfg.tick_ms)

\* for e in events: mc.consume(e), from position i of the log on
RECURSIVE ConsumeFrom(_, _, _)
ConsumeFrom(c, log, i) ==
  IF i > Len(log) THEN c ELSE ConsumeFrom(Consume(c, log[i]), log, i + 1)

\* the collector of main after the whole log
ConsumeLog(cfg, log) == ConsumeFrom(LogCollector(cfg), log, 1)

\* times carried by the ALARM_RAISED and ALARM_CLEARED events handed to consume
MetricTimes == {0, 20, 60}

\* kinds carried by the FAULT_INJECTED events handed to consume
MetricKinds == {"dropout", "sensor_spike", "noise", "dropout_partial"}

\* the events handed to consume; consume reads t_ms of the terminal alarm
\* events only
MetricEvents ==
  {LogEvent(t, "ERROR", "ALARM_RAISED", [reason |-> "sensor_dropout"]) : t \in MetricTimes}
    \cup {LogEvent(t, "INFO", "ALARM_CLEARED", [reason |-> "nominal"]) : t \in MetricTimes}
    \cup {LogEvent(0, "INFO", "APP_TICK", [tick |-> 0]),
          LogEvent(0, "INFO", "STATE_TRANSITION",
                   [from |-> NOMINAL, to |-> ALARMED, reason |-> "dropout_immediate"])}
    \cup {LogEvent(0, "WARN", "FAULT_INJECTED", [kind |-> k, value |-> 1, tick |-> 0]) :
            k \in MetricKinds}

RECURSIVE SumSeq(_)
SumSeq(q) == IF q = <<>> THEN 0 ELSE Head(q) + SumSeq(Tail(q))

(* ------------------------------- state -------------------------------- *)
VARIABLES
  mc,        \* the MetricsCollector: tick_ms, m (RunMetrics), alarmed, alarm_start_ms
  mlast,     \* the latest consume call: its event and the collector before it
  mhist,     \* what was consumed so far: events, APP_TICKs, the alarm window
             \* (opened by the first ALARM_RAISED, closed by ALARM_CLEARED) and
             \* the clear durations of the windows closed
  app,       \* the App instance: cfg, tick_count, state, raise_streak, clear_streak
  clock,     \* the SimClock the caller steps once per tick call
  events,    \* the list returned by the latest tick call
  raised,    \* TRUE when the latest tick call ended in an AssertionError
  attempt,   \* <<[from, to]>> of the latest tick's _transition call, or <<>>
  last,      \* the latest call: its fault list, its now_ms, the App before it
  hi_run,    \* consecutive alarm-condition ticks counted from state NOMINAL
  nom_run,   \* consecutive below-threshold ticks counted from state ALARMED
  drop_run,  \* consecutive absent-reading ticks counted from a non-ALARMED state
  drop_raised, \* ALARM_RAISED events returned during the current drop_run
  hi_consec, \* consecutive latest tick calls whose reading was present and >= threshold
  lo_consec, \* consecutive latest tick calls whose reading was present and < threshold
  snap,      \* the RunMetrics object snapshot() returned, and what it showed then
  alt,       \* the App instance of the alternate implementation
  alt_events,  \* the list returned by the alternate's latest tick call
  alt_raised,  \* TRUE when the alternate's latest tick call ended in an AssertionError
  alt_attempt, \* <<[from, to]>> of the alternate's latest _transition call, or <<>>
  pc_drop,   \* TRUE once an absent reading arrived while the state was PENDING_CLEAR
  run        \* the locals of one run_app call and its position

appVars == <<app, clock, events, raised, attempt, last, hi_run, nom_run, drop_run,
             drop_raised, hi_consec, lo_consec>>

altVars == <<alt, alt_events, alt_raised, alt_attempt, pc_drop>>

metricsVars == <<mc, mlast, mhist>>

vars == <<appVars, metricsVars, altVars, snap, run>>

\* a collector that has consumed nothing
MetricsInit(tick_ms) ==
  /\ mc = NewMetricsCollector(tick_ms)
  /\ mlast = [called |-> FALSE,
              e |-> LogEvent(0, "INFO", "BOOT", [tick_ms |-> tick_ms]),
              pre |-> mc]
  /\ mhist = [consumed |-> 0, app_ticks |-> 0, win |-> <<>>, samples |-> <<>>]

\* no snapshot() call yet
SnapInit ==
  snap = [taken |-> FALSE, at |-> 0, obj |-> "none", showed |-> NewRunMetrics]

\* the alternate App, constructed with the same configuration
AltInit(cfg) ==
  /\ alt = NewAltApp(cfg)
  /\ alt_events = <<>>
  /\ alt_raised = FALSE
  /\ alt_attempt = <<>>
  /\ pc_drop = FALSE

\* no run_app call
RunIdle == run = [pc |-> "idle"]

Init ==
  /\ \E ra \in 1..MaxAfter, ca \in 1..MaxAfter : app = NewApp(AppConfig(ra, ca))
  /\ clock = [tick_ms |-> TickMs, now_ms |-> 0]
  /\ events = <<>>
  /\ raised = FALSE
  /\ attempt = <<>>
  /\ last = [called |-> FALSE, faults |-> <<>>, now |-> 0, pre |-> app]
  /\ hi_run = 0
  /\ nom_run = 0
  /\ drop_run = 0
  /\ drop_raised = 0
  /\ hi_consec = 0
  /\ lo_consec = 0
  /\ MetricsInit(TickMs)
  /\ SnapInit
  /\ AltInit(app.cfg)
  /\ RunIdle

\* one call app.tick(now_ms=clock.now_ms, faults) followed by clock.advance()
Tick(faults) ==
  LET r == TickCall(app, clock.now_ms, faults)
      sv == Resolve(faults)
      hi == sv.present /\ sv.value >= app.cfg.sensor_alarm_threshold
      lo == sv.present /\ sv.value < app.cfg.sensor_alarm_threshold
  IN /\ clock.now_ms < MaxTicks * clock.tick_ms
     /\ app' = r.m
     /\ events' = r.events
     /\ raised' = ~r.ok
     /\ attempt' = r.attempt
     /\ clock' = Advance(clock)
     /\ last' = [called |-> TRUE, faults |-> faults, now |-> clock.now_ms, pre |-> app]
     /\ hi_run' = IF ~hi THEN 0
                  ELSE IF app.state = NOMINAL /\ app.raise_streak = 0
                          /\ app.clear_streak = 0 THEN 1
                  ELSE IF hi_run >= 1 /\ hi_run < app.cfg.alarm_raise_after
                  THEN hi_run + 1 ELSE 0
     /\ nom_run' = IF ~lo THEN 0
                   ELSE IF app.state = ALARMED /\ app.clear_streak = 0 THEN 1
                   ELSE IF nom_run >= 1 /\ nom_run < app.cfg.alarm_clear_after
                   THEN nom_run + 1 ELSE 0
     /\ drop_run' = IF sv.present THEN 0
                    ELSE IF drop_run >= 1 THEN drop_run + 1
                    ELSE IF app.state # ALARMED THEN 1 ELSE 0
     /\ drop_raised' = IF sv.present THEN 0
                       ELSE IF drop_run >= 1
                       THEN drop_raised + CountCode(r.events, "ALARM_RAISED")
                       ELSE IF app.state # ALARMED
                       THEN CountCode(r.events, "ALARM_RAISED") ELSE 0
     /\ hi_consec' = IF hi THEN hi_consec + 1 ELSE 0
     /\ lo_consec' = IF lo THEN lo_consec + 1 ELSE 0
     /\ UNCHANGED <<metricsVars, altVars, snap, run>>

Next == \E faults \in FaultLists : Tick(faults)

Spec == Init /\ [][Next]_vars

(* ------------------- _transition called directly ------------------------ *)
\* one call app._transition(now_ms=clock.now_ms, to_state, reason) made from
\* outside tick, as the guardrail test makes it
TransitionCall(to_state) ==
  LET r == Transition(app, clock.now_ms, to_state, "test_illegal")
  IN /\ app' = r.m
     /\ events' = r.events
     /\ raised' = ~r.ok
     /\ attempt' = r.attempt
     /\ last' = [called |-> TRUE, faults |-> <<>>, now |-> clock.now_ms, pre |-> app]
     /\ UNCHANGED <<clock, hi_run, nom_run, drop_run, drop_raised, hi_consec,
                    lo_consec, metricsVars, altVars, snap, run>>

NextTransition == \E to_state \in AlarmState : TransitionCall(to_state)

SpecTransition == Init /\ [][NextTransition]_vars

(* ------------------- the two implementations side by side --------------- *)
\* one call tick(now_ms=clock.now_ms, faults) on each of the two Apps, then
\* clock.advance()
TickBoth(faults) ==
  LET r == TickCall(app, clock.now_ms, faults)
      a == AltTickCall(alt, clock.now_ms, faults)
  IN /\ clock.now_ms < MaxTicks * clock.tick_ms
     /\ app' = r.m
     /\ events' = r.events
     /\ raised' = ~r.ok
     /\ attempt' = r.attempt
     /\ last' = [called |-> TRUE, faults |-> faults, now |-> clock.now_ms, pre |-> app]
     /\ clock' = Advance(clock)
     /\ alt' = a.m
     /\ alt_events' = a.events
     /\ alt_raised' = ~a.ok
     /\ alt_attempt' = a.attempt
     /\ pc_drop' = \/ pc_drop
                   \/ /\ ~Resolve(faults).present
                      /\ (app.state = PENDING_CLEAR \/ alt.state = PENDING_CLEAR)
     /\ UNCHANGED <<hi_run, nom_run, drop_run, drop_raised, hi_consec, lo_consec,
                    metricsVars, snap, run>>

NextAlt == \E faults \in FaultLists : TickBoth(faults)

SpecAlt == Init /\ [][NextAlt]_vars

(* ------------------------------ one run_app call ----------------------- *)
\* largest total_ticks of a run, and latest tick index of a scenario fault
MaxRunTicks == 3

\* the faults of a scenario: load_scenario admits any tick >= 0, those at
\* and beyond total_ticks included
ScenarioFaults ==
  {[tick |-> t, kind |-> f.kind, value |-> f.value] :
     t \in 0..MaxRunTicks,
     f \in {Fault("dropout", 1), Fault("noise", 7), Fault("sensor_spike", 1000)}}

Scenarios == SeqsUpTo(ScenarioFaults, MaxFaults)

\* run_app(cfg, engine) entered, nothing executed yet
InitRun ==
  /\ app = NewApp(AppConfig(2, 2))
  /\ clock = [tick_ms |-> TickMs, now_ms |-> 0]
  /\ events = <<>>
  /\ raised = FALSE
  /\ attempt = <<>>
  /\ last = [called |-> FALSE, faults |-> <<>>, now |-> 0, pre |-> app]
  /\ hi_run = 0
  /\ nom_run = 0
  /\ drop_run = 0
  /\ drop_raised = 0
  /\ hi_consec = 0
  /\ lo_consec = 0
  /\ MetricsInit(TickMs)
  /\ SnapInit
  /\ AltInit(app.cfg)
  /\ \E ra \in 1..MaxAfter, ca \in 1..MaxAfter, n \in 0..MaxRunTicks,
        scenario \in Scenarios :
        run = [pc |-> "start", cfg |-> RunConfig(ra, ca, n), scenario |-> scenario,
               clock |-> [tick_ms |-> TickMs, now_ms |-> 0],
               app |-> NewApp(RunConfig(ra, ca, n)),
               events |-> <<>>, tick |-> 0, nows |-> <<>>]

\* events = []; clock = SimClock(...); app = App(cfg); events.append(BOOT)
RunBoot ==
  /\ run.pc = "start"
  /\ run' = [run EXCEPT
               !.pc = "loop",
               !.clock = [tick_ms |-> run.cfg.tick_ms, now_ms |-> 0],
               !.app = NewApp(run.cfg),
               !.events = <<BootEvent(run.cfg)>>]
  /\ UNCHANGED <<appVars, metricsVars, altVars, snap>>

\* one iteration of for tick in range(cfg.total_ticks); nows records the
\* now_ms of each app.tick call. An AssertionError out of app.tick leaves
\* run_app without a return value.
RunIteration ==
  /\ run.pc = "loop"
  /\ run.tick < run.cfg.total_ticks
  /\ LET now_ms == run.clock.now_ms
         faults == FaultsAtTick(run.scenario, run.tick)
         logged == run.events \o FaultEvents(now_ms, faults, run.tick)
         r == TickCall(run.app, now_ms, faults)
     IN run' = IF r.ok
               THEN [run EXCEPT !.events = logged \o r.events,
                                !.app = r.m,
                                !.clock = Advance(run.clock),
                                !.tick = @ + 1,
                                !.nows = Append(@, now_ms)]
               ELSE [run EXCEPT !.pc = "failed",
                                !.events = logged,
                                !.app = r.m,
                                !.nows = Append(@, now_ms)]
  /\ UNCHANGED <<appVars, metricsVars, altVars, snap>>

\* events.append(SHUTDOWN); return events
RunShutdown ==
  /\ run.pc = "loop"
  /\ run.tick = run.cfg.total_ticks
  /\ run' = [run EXCEPT !.pc = "done",
                        !.events = Append(@, ShutdownEvent(run.clock.now_ms))]
  /\ UNCHANGED <<appVars, metricsVars, altVars, snap>>

NextRun == RunBoot \/ RunIteration \/ RunShutdown

SpecRun == InitRun /\ [][NextRun]_vars

(* ------------------- run_app over any fault feed ------------------------ *)
\* largest total_ticks of a run whose fault feed is chosen tick by tick
MaxLogTicks == 7

\* what engine.faults_at_tick(tick) returns in such a run: nothing, one
\* dropout or one sensor_spike at the threshold
TickFaults(tick) ==
  {<<>>,
   <<[tick |-> tick, kind |-> "dropout", value |-> 1]>>,
   <<[tick |-> tick, kind |-> "sensor_spike", value |-> SensorAlarmThreshold]>>}

\* run_app(cfg, engine) entered; the scenario of the engine is built up as
\* the run asks for each tick's faults
InitLog ==
  /\ app = NewApp(AppConfig(2, 2))
  /\ clock = [tick_ms |-> TickMs, now_ms |-> 0]
  /\ events = <<>>
  /\ raised = FALSE
  /\ attempt = <<>>
  /\ last = [called |-> FALSE, faults |-> <<>>, now |-> 0, pre |-> app]
  /\ hi_run = 0
  /\ nom_run = 0
  /\ drop_run = 0
  /\ drop_raised = 0
  /\ hi_consec = 0
  /\ lo_consec = 0
  /\ MetricsInit(TickMs)
  /\ SnapInit
  /\ AltInit(app.cfg)
  /\ \E ra \in 1..MaxAfter, ca \in 1..MaxAfter, n \in 0..MaxLogTicks :
        run = [pc |-> "start", cfg |-> RunConfig(ra, ca, n), scenario |-> <<>>,
               clock |-> [tick_ms |-> TickMs, now_ms |-> 0],
               app |-> NewApp(RunConfig(ra, ca, n)),
               events |-> <<>>, tick |-> 0, nows |-> <<>>]

\* one iteration of for tick in range(cfg.total_ticks) in which
\* engine.faults_at_tick(tick) returns faults
RunIterationWith(faults) ==
  /\ run.pc = "loop"
  /\ run.tick < run.cfg.total_ticks
  /\ LET now_ms == run.clock.now_ms
         logged == run.events \o FaultEvents(now_ms, faults, run.tick)
         r == TickCall(run.app, now_ms, faults)
     IN run' = IF r.ok
               THEN [run EXCEPT !.scenario = @ \o faults,
                                !.events = logged \o r.events,
                                !.app = r.m,
                                !.clock = Advance(run.clock),
                                !.tick = @ + 1,
                                !.nows = Append(@, now_ms)]
               ELSE [run EXCEPT !.pc = "failed",
                                !.scenario = @ \o faults,
                                !.events = logged,
                                !.app = r.m,
                                !.nows = Append(@, now_ms)]
  /\ UNCHANGED <<appVars, metricsVars, altVars, snap>>

NextLog ==
  \/ RunBoot
  \/ \E faults \in TickFaults(run.tick) : RunIterationWith(faults)
  \/ RunShutdown

SpecLog == InitLog /\ [][NextLog]_vars

(* ------------------- the collector on its own --------------------------- *)
\* number of events handed to one collector
MaxEvents == 4

\* an App with the default configuration that is never ticked, and a fresh
\* collector
InitMetrics ==
  /\ app = NewApp(AppConfig(2, 2))
  /\ clock = [tick_ms |-> TickMs, now_ms |-> 0]
  /\ events = <<>>
  /\ raised = FALSE
  /\ attempt = <<>>
  /\ last = [called |-> FALSE, faults |-> <<>>, now |-> 0, pre |-> app]
  /\ hi_run = 0
  /\ nom_run = 0
  /\ drop_run = 0
  /\ drop_raised = 0
  /\ hi_consec = 0
  /\ lo_consec = 0
  /\ \E tick_ms \in {TickMs, 2 * TickMs} : MetricsInit(tick_ms)
  /\ SnapInit
  /\ AltInit(app.cfg)
  /\ RunIdle

\* one call mc.consume(e)
ConsumeEvent(e) ==
  /\ mhist.consumed < MaxEvents
  /\ mc' = Consume(mc, e)
  /\ mlast' = [called |-> TRUE, e |-> e, pre |-> mc]
  /\ mhist' =
       [consumed |-> mhist.consumed + 1,
        app_ticks |-> mhist.app_ticks + (IF e.code = "APP_TICK" THEN 1 ELSE 0),
        win |-> IF e.code = "ALARM_CLEARED" THEN <<>>
                ELSE IF e.code = "ALARM_RAISED" /\ mhist.win = <<>> THEN <<e.t_ms>>
                ELSE mhist.win,
        samples |-> IF e.code = "ALARM_CLEARED" /\ mhist.win # <<>>
                    THEN Append(mhist.samples, e.t_ms - mhist.win[1])
                    ELSE mhist.samples]
  /\ UNCHANGED <<appVars, altVars, snap, run>>

\* one call s = mc.snapshot(); the caller keeps s
TakeSnapshot ==
  /\ snap' = [taken |-> TRUE, at |-> mhist.consumed, obj |-> SnapshotObject(mc),
              showed |-> Snapshot(mc)]
  /\ UNCHANGED <<appVars, metricsVars, altVars, run>>

NextMetrics ==
  \/ \E e \in MetricEvents : ConsumeEvent(e)
  \/ TakeSnapshot

SpecMetrics == InitMetrics /\ [][NextMetrics]_vars

(* ------------------------- the latest tick call ----------------------- *)
\* the reading the latest tick call resolved from its fault list
LastReading == Resolve(last.faults)
LastAbsent == last.called /\ ~LastReading.present
LastHigh ==
  /\ last.called
  /\ LastReading.present
  /\ LastReading.value >= last.pre.cfg.sensor_alarm_threshold
LastLow ==
  /\ last.called
  /\ LastReading.present
  /\ LastReading.value < last.pre.cfg.sensor_alarm_threshold
\* the latest tick call returned its event list (no AssertionError)
Returned == last.called /\ ~raised

(* ------------------------------- claims ------------------------------- *)

\* C1: whatever the configuration (raiseAfter >= 1, clearAfter >= 1), the
\* reachable state and the fault list, the transition that tick asks of
\* _transition is in the legal-transition table, so the assertion never fails.
C1_OnlyLegalTransitionsAttempted ==
  /\ ~raised
  /\ \A i \in 1..Len(attempt) :
       attempt[i].to \in LEGAL_TRANSITIONS[attempt[i].from]

\* C2: clear debounce. Counting consecutive below-threshold ticks from state
\* ALARMED with clearStreak = 0, each of the first clearAfter-1 returns
\* ALARM_PENDING_CLEAR, no ALARM_CLEARED, and leaves PENDING_CLEAR; the
\* clearAfter-th returns ALARM_CLEARED, leaves clearStreak = 0 and NOMINAL.
C2_ClearDebounce ==
  /\ (nom_run >= 1 /\ nom_run < app.cfg.alarm_clear_after) =>
       /\ HasCode(events, "ALARM_PENDING_CLEAR")
       /\ ~HasCode(events, "ALARM_CLEARED")
       /\ app.state = PENDING_CLEAR
  /\ (nom_run >= 1 /\ nom_run = app.cfg.alarm_clear_after) =>
       /\ HasCode(events, "ALARM_CLEARED")
       /\ app.clear_streak = 0
       /\ app.state = NOMINAL

\* C3: raise debounce. Counting consecutive alarm-condition ticks (present
\* reading >= threshold) from state NOMINAL with both streaks 0, each of the
\* first raiseAfter-1 returns ALARM_PENDING_RAISE, no ALARM_RAISED, and leaves
\* PENDING_RAISE; the raiseAfter-th returns ALARM_RAISED with reason
\* sensor_spike, leaves raiseStreak = 0 and ALARMED.
C3_RaiseDebounce ==
  /\ (hi_run >= 1 /\ hi_run < app.cfg.alarm_raise_after) =>
       /\ HasCode(events, "ALARM_PENDING_RAISE")
       /\ ~HasCode(events, "ALARM_RAISED")
       /\ app.state = PENDING_RAISE
  /\ (hi_run >= 1 /\ hi_run = app.cfg.alarm_raise_after) =>
       /\ \E i \in 1..Len(events) :
            /\ events[i].code = "ALARM_RAISED"
            /\ events[i].msg.reason = "sensor_spike"
       /\ app.raise_streak = 0
       /\ app.state = ALARMED

\* C3 witness: a raise committed on the raiseAfter-th consecutive spike tick
\* after at least one pending tick.
C3_Witness ==
  /\ hi_run = app.cfg.alarm_raise_after
  /\ app.cfg.alarm_raise_after >= 2
  /\ HasCode(events, "ALARM_RAISED")
  /\ app.state = ALARMED

\* C4: dropout dominance regardless of list order. A tick whose fault list
\* holds a dropout anywhere resolves the reading as absent and returns the
\* events, state and streaks of the tick whose list is the dropout alone.
C4_DropoutDominatesInAnyOrder ==
  (last.called /\ \E i \in 1..Len(last.faults) : last.faults[i].kind = "dropout") =>
    LET only == TickCall(last.pre, last.now, <<Fault("dropout", 1)>>)
    IN /\ ~LastReading.present
       /\ events = only.events
       /\ app = only.m
       /\ raised = ~only.ok

\* C5: the event list a tick call returns has APP_TICK first and exactly once.
C5_AppTickFirstAndOnce ==
  Returned =>
    /\ Len(events) >= 1
    /\ events[1].code = "APP_TICK"
    /\ CountCode(events, "APP_TICK") = 1

\* C5 witness: a returned tick with further events after APP_TICK.
C5_Witness == Returned /\ Len(events) >= 3 /\ events[1].code = "APP_TICK"

\* C6: a tick emits at most one STATE_TRANSITION, one exactly when the state
\* after the tick differs from the state before it, and that event carries
\* the pre-tick state as from and the post-tick state as to.
C6_OneTransitionEventIffStateChanged ==
  last.called =>
    /\ CountCode(events, "STATE_TRANSITION") <= 1
    /\ (CountCode(events, "STATE_TRANSITION") = 1) <=> (app.state # last.pre.state)
    /\ \A i \in 1..Len(events) :
         events[i].code = "STATE_TRANSITION" =>
           /\ events[i].msg.from = last.pre.state
           /\ events[i].msg.to = app.state

\* C6 witness: a tick that changed the state and logged the transition.
C6_Witness ==
  /\ last.called
  /\ app.state # last.pre.state
  /\ CountCode(events, "STATE_TRANSITION") = 1

\* C7: no tick's output holds both ALARM_RAISED and ALARM_CLEARED.
C7_NeverRaisedAndClearedTogether ==
  ~(HasCode(events, "ALARM_RAISED") /\ HasCode(events, "ALARM_CLEARED"))

\* C7 witness: a tick whose output holds ALARM_CLEARED, at a machine that
\* had been clearing.
C7_Witness ==
  /\ Returned
  /\ last.pre.state = PENDING_CLEAR
  /\ HasCode(events, "ALARM_CLEARED")

\* C8: a tick from ALARMED never emits ALARM_RAISED, and for an absent reading
\* or a reading >= threshold it returns APP_TICK alone and stays ALARMED; so a
\* run of consecutive dropout ticks begun in a non-ALARMED state emits exactly
\* one ALARM_RAISED, on its first tick.
C8_NoSecondRaiseWhileAlarmed ==
  /\ (last.called /\ last.pre.state = ALARMED) =>
       /\ ~HasCode(events, "ALARM_RAISED")
       /\ (LastAbsent \/ LastHigh) =>
            /\ Codes(events) = <<"APP_TICK">>
            /\ app.state = ALARMED
  /\ drop_run >= 1 =>
       /\ drop_raised = 1
       /\ HasCode(events, "ALARM_RAISED") <=> (drop_run = 1)

\* C8 witness: the third tick of a dropout run, one ALARM_RAISED so far.
C8_Witness ==
  /\ drop_run >= 3
  /\ drop_raised = 1
  /\ last.pre.state = ALARMED
  /\ Codes(events) = <<"APP_TICK">>

\* C9: from PENDING_CLEAR, a present reading >= threshold leaves
\* PENDING_RAISE with raiseStreak = 1 and clearStreak = 0 and returns
\* APP_TICK, STATE_TRANSITION (reason raise_pending), ALARM_PENDING_RAISE,
\* and no ALARM_RAISED, whatever raiseAfter is.
C9_SpikeWhileClearingRestartsRaise ==
  (LastHigh /\ last.pre.state = PENDING_CLEAR) =>
    /\ app.state = PENDING_RAISE
    /\ app.raise_streak = 1
    /\ app.clear_streak = 0
    /\ Codes(events) = <<"APP_TICK", "STATE_TRANSITION", "ALARM_PENDING_RAISE">>
    /\ events[2].msg.reason = "raise_pending"
    /\ ~HasCode(events, "ALARM_RAISED")

\* C9 witness: the alarm condition returns while clearing, with raiseAfter = 1.
C9_Witness ==
  /\ LastHigh
  /\ last.pre.state = PENDING_CLEAR
  /\ app.cfg.alarm_raise_after = 1
  /\ app.state = PENDING_RAISE

\* C11: dropout is an immediate, non-debounced raise. From NOMINAL or
\* PENDING_RAISE an absent reading moves to ALARMED (reason
\* dropout_immediate), emits ALARM_RAISED (reason sensor_dropout) and leaves
\* both streaks 0, whatever raiseAfter and the raise streak were.
C11_DropoutRaisesImmediately ==
  (LastAbsent /\ last.pre.state \in {NOMINAL, PENDING_RAISE}) =>
    /\ app.state = ALARMED
    /\ app.raise_streak = 0
    /\ app.clear_streak = 0
    /\ Codes(events) = <<"APP_TICK", "STATE_TRANSITION", "ALARM_RAISED">>
    /\ events[2].msg.reason = "dropout_immediate"
    /\ events[3].msg.reason = "sensor_dropout"

\* C11 witness: a dropout cuts a raise debounce short, one spike into it.
C11_Witness ==
  /\ LastAbsent
  /\ last.pre.state = PENDING_RAISE
  /\ last.pre.raise_streak >= 1
  /\ last.pre.raise_streak + 1 < last.pre.cfg.alarm_raise_after
  /\ app.state = ALARMED

\* C12: single-tick noise never raises. A tick with a present reading returns
\* ALARM_RAISED only if it and the raiseAfter-1 tick calls right before it all
\* had present readings >= threshold.
C12_RaiseNeedsConsecutiveSpikes ==
  (Returned /\ LastReading.present /\ HasCode(events, "ALARM_RAISED")) =>
    hi_consec >= app.cfg.alarm_raise_after

\* C12 witness: a raise on a present reading with raiseAfter >= 2, after an
\* earlier run of spikes was broken.
C12_Witness ==
  /\ Returned
  /\ LastReading.present
  /\ HasCode(events, "ALARM_RAISED")
  /\ app.cfg.alarm_raise_after >= 2
  /\ hi_consec = app.cfg.alarm_raise_after
  /\ app.tick_count > hi_consec

\* C13: bounded raise response. From every reachable state, once raiseAfter
\* consecutive tick calls had a present reading >= threshold, the state is
\* ALARMED.
C13_AlarmedAfterRaiseAfterSpikes ==
  hi_consec >= app.cfg.alarm_raise_after => app.state = ALARMED

\* C14: the tick counter advances exactly once per tick call, and the k-th
\* call (from 0) returns APP_TICK carrying tick = k.
C14_TickCounterCountsCalls ==
  /\ app.tick_count * clock.tick_ms = clock.now_ms
  /\ last.called =>
       /\ Len(events) >= 1
       /\ events[1].code = "APP_TICK"
       /\ events[1].msg.tick * clock.tick_ms = last.now

\* C15: after every tick call both streaks are >= 0 and never both non-zero.
C15_StreaksNeverInterleave ==
  /\ app.raise_streak >= 0
  /\ app.clear_streak >= 0
  /\ ~(app.raise_streak > 0 /\ app.clear_streak > 0)

\* C15 witness: a raise streak starts on the tick that ends a clear streak.
C15_Witness ==
  /\ last.called
  /\ last.pre.clear_streak > 0
  /\ app.raise_streak > 0
  /\ app.clear_streak = 0

(* ------------------------ the latest consume call --------------------- *)
\* the latest consume call was handed an event with this code
Consumed(code) == mlast.called /\ mlast.e.code = code
\* an alarm window was open when the latest consume call began
WindowWasOpen == mlast.pre.alarmed

\* C16: metrics time accounting. alarmed_ms + nominal_ms is tick_ms times the
\* number of APP_TICK events consumed, and an APP_TICK adds tick_ms to
\* alarmed_ms exactly when an alarm window is open as it is consumed, to
\* nominal_ms otherwise.
C16_TickTimeAccounting ==
  /\ mc.m.alarmed_ms + mc.m.nominal_ms = mc.tick_ms * mhist.app_ticks
  /\ Consumed("APP_TICK") =>
       IF mhist.win # <<>>
       THEN /\ mc.m.alarmed_ms = mlast.pre.m.alarmed_ms + mc.tick_ms
            /\ mc.m.nominal_ms = mlast.pre.m.nominal_ms
       ELSE /\ mc.m.nominal_ms = mlast.pre.m.nominal_ms + mc.tick_ms
            /\ mc.m.alarmed_ms = mlast.pre.m.alarmed_ms

\* C16 witness: an APP_TICK consumed inside a window, after one outside.
C16_Witness ==
  /\ Consumed("APP_TICK")
  /\ mhist.win # <<>>
  /\ mc.m.alarmed_ms > 0
  /\ mc.m.nominal_ms > 0

\* C17: every ALARM_RAISED consumed increments alarms_raised; it records the
\* window start only when no window is open, and leaves the recorded start
\* unchanged when one is.
C17_RaisedOpensWindowOnce ==
  Consumed("ALARM_RAISED") =>
    /\ mc.m.alarms_raised = mlast.pre.m.alarms_raised + 1
    /\ mc.alarmed
    /\ IF WindowWasOpen
       THEN mc.alarm_start_ms = mlast.pre.alarm_start_ms
       ELSE mc.alarm_start_ms = <<mlast.e.t_ms>>
    /\ mc.alarm_start_ms = mhist.win

\* C17 witness: a second ALARM_RAISED, with another time, inside a window.
C17_Witness ==
  /\ Consumed("ALARM_RAISED")
  /\ WindowWasOpen
  /\ mlast.pre.alarm_start_ms # <<mlast.e.t_ms>>
  /\ mc.m.alarms_raised = 2

\* C18: an ALARM_CLEARED consumed while a window is open adds (event time -
\* window start) to the clear-duration sum, increments the sample count and
\* closes the window; consumed while no window is open it increments
\* alarms_cleared and leaves the sum and the sample count unchanged.
C18_ClearedClosesWindow ==
  Consumed("ALARM_CLEARED") =>
    /\ mc.m.alarms_cleared = mlast.pre.m.alarms_cleared + 1
    /\ ~mc.alarmed
    /\ mc.alarm_start_ms = <<>>
    /\ IF WindowWasOpen
       THEN /\ mc.m.clear_durations_ms_total =
                 mlast.pre.m.clear_durations_ms_total
                   + (mlast.e.t_ms - mlast.pre.alarm_start_ms[1])
            /\ mc.m.clear_durations_count = mlast.pre.m.clear_durations_count + 1
       ELSE /\ mc.m.clear_durations_ms_total = mlast.pre.m.clear_durations_ms_total
            /\ mc.m.clear_durations_count = mlast.pre.m.clear_durations_count

\* C18 witness: an ALARM_CLEARED with no window open, after a window was
\* closed with a non-zero duration.
C18_Witness ==
  /\ Consumed("ALARM_CLEARED")
  /\ ~WindowWasOpen
  /\ mc.m.alarms_cleared = 2
  /\ mc.m.clear_durations_count = 1
  /\ mc.m.clear_durations_ms_total > 0

\* C19: the mean time-to-clear of the snapshot is None while no clear
\* duration was recorded, and otherwise the arithmetic mean of the recorded
\* (clear time - window start) samples; samples of 20 and 40 give 30.
C19_MeanTimeToClear ==
  LET mean == MeanTimeToClearMs(Snapshot(mc))
      n == Len(mhist.samples)
  IN /\ n = 0 => mean = <<>>
     /\ n > 0 =>
          /\ mean # <<>>
          /\ mean[1].den = n
          /\ mean[1].num * n = SumSeq(mhist.samples) * mean[1].den
     /\ mhist.samples = <<20, 40>> => mean[1].num = 30 * mean[1].den

\* C19 witness: two windows closed after 20 ms and 40 ms.
C19_Witness ==
  /\ mhist.samples = <<20, 40>>
  /\ MeanTimeToClearMs(Snapshot(mc)) = <<[num |-> 60, den |-> 2]>>

\* the kinds the decision policy recognizes
Recognized(f) == f.kind \in {"dropout", "sensor_spike"}

C25_NominalWhenNotAlarmed ==
  (LastLow /\ last.pre.state \in {NOMINAL, PENDING_RAISE}) =>
    /\ ~HasCode(events, "ALARM_PENDING_CLEAR")
    /\ ~HasCode(events, "ALARM_CLEARED")
    /\ app.raise_streak = 0
    /\ app.clear_streak = 0
    /\ app.state = NOMINAL
    /\ IF last.pre.state = NOMINAL
       THEN Codes(events) = <<"APP_TICK">>
       ELSE /\ Codes(events) = <<"APP_TICK", "STATE_TRANSITION">>
            /\ events[2].msg = [from |-> PENDING_RAISE, to |-> NOMINAL,
                                reason |-> "nominal"]

\* C25 witness: a below-threshold tick ends a raise debounce in progress.
C25_Witness ==
  /\ LastLow
  /\ last.pre.state = PENDING_RAISE
  /\ last.pre.raise_streak >= 1
  /\ app.state = NOMINAL
  /\ Codes(events) = <<"APP_TICK", "STATE_TRANSITION">>

\* C26: bounded clear response. From every reachable state, once clearAfter
\* consecutive tick calls had a present reading below the threshold, the
\* state is NOMINAL with both streaks 0, for every clearAfter >= 1.
C26_NominalAfterClearAfterLows ==
  lo_consec >= app.cfg.alarm_clear_after =>
    /\ app.state = NOMINAL
    /\ app.raise_streak = 0
    /\ app.clear_streak = 0

\* C29: state/streak coupling after every tick call: in NOMINAL and in ALARMED
\* both streaks are 0; in PENDING_CLEAR raiseStreak = 0 and
\* 1 <= clearStreak < clearAfter (so no PENDING_CLEAR when clearAfter = 1).
C29_StateStreakCoupling ==
  /\ app.state \in {NOMINAL, ALARMED} =>
       /\ app.raise_streak = 0
       /\ app.clear_streak = 0
  /\ app.state = PENDING_CLEAR =>
       /\ app.raise_streak = 0
       /\ 1 <= app.clear_streak
       /\ app.clear_streak < app.cfg.alarm_clear_after

\* C29 witness: the second pending tick of a clear debounce of three.
C29_Witness ==
  /\ last.called
  /\ app.state = PENDING_CLEAR
  /\ app.clear_streak = 2
  /\ app.cfg.alarm_clear_after = 3

\* C30: after every tick call, in PENDING_RAISE clearStreak = 0 and
\* 1 <= raiseStreak < raiseAfter, for every raiseAfter >= 1 (so the pair
\* reported in ALARM_PENDING_RAISE has streak < needed, and there is no
\* PENDING_RAISE when raiseAfter = 1).
C30_PendingRaiseStreakBelowNeeded ==
  /\ app.state = PENDING_RAISE =>
       /\ app.clear_streak = 0
       /\ 1 <= app.raise_streak
       /\ app.raise_streak < app.cfg.alarm_raise_after
  /\ \A i \in 1..Len(events) :
       events[i].code = "ALARM_PENDING_RAISE" =>
         events[i].msg.streak < events[i].msg.needed

\* C23: an attempted transition to a state that differs from the current one
\* and is not in the current state's legal set (NOMINAL -> PENDING_CLEAR for
\* one) fails with an assertion error, emits no STATE_TRANSITION event and
\* leaves the machine state unchanged.
C23_IllegalTransitionBlocked ==
  \A i \in 1..Len(attempt) :
    (attempt[i].to # attempt[i].from
       /\ attempt[i].to \notin LEGAL_TRANSITIONS[attempt[i].from]) =>
      /\ raised
      /\ ~HasCode(events, "STATE_TRANSITION")
      /\ app.state = attempt[i].from
      /\ app.state = last.pre.state

\* C23 witness: the call _transition(PENDING_CLEAR) on a NOMINAL machine.
C23_Witness ==
  /\ attempt = <<[from |-> NOMINAL, to |-> PENDING_CLEAR]>>
  /\ raised
  /\ app.state = NOMINAL

\* C24: snapshot() returns an immutable RunMetrics: the value a snapshot()
\* call returned is not changed by any later consume() call on the same
\* collector (a snapshot taken after k events still shows the counts of those
\* k events).
C24_SnapshotUnchangedByConsume ==
  snap.taken => Deref(mc, snap.obj) = snap.showed

\* C27: in the alternate implementation every transition its tick attempts,
\* from any reachable state and for any reading (an absent reading while
\* PENDING_CLEAR included), is in its own legal-transition table, so its
\* assertion never fails.
C27_AltOnlyLegalTransitionsAttempted ==
  /\ ~alt_raised
  /\ \A i \in 1..Len(alt_attempt) :
       alt_attempt[i].to \in ALT_LEGAL_TRANSITIONS[alt_attempt[i].from]

\* C28: run side by side with the same configuration on a tick sequence in
\* which no absent reading arrives while the state is PENDING_CLEAR, the two
\* implementations return identical event lists and are in the same
\* AlarmState after every tick; their streak counters may differ.
C28_SameEventsOutsidePendingClearDropout ==
  ~pc_drop =>
    /\ alt_events = events
    /\ alt.state = app.state
    /\ alt_raised = raised

\* C28 witness: a raise committed from NOMINAL at least three ticks into the
\* run: the alternate keeps the raise streak that the other implementation
\* resets, and the two event lists agree.
C28_Witness ==
  /\ ~pc_drop
  /\ last.called
  /\ last.pre.state = NOMINAL
  /\ last.pre.tick_count >= 3
  /\ alt.raise_streak # app.raise_streak
  /\ alt_events = events
  /\ HasCode(events, "ALARM_RAISED")

(* ------------------------------ the run_app log ----------------------- *)
\* run_app returned its log
RunReturned == run.pc = "done"
\* the positions of the log that hold a FAULT_INJECTED carrying tick t
FaultPositions(log, t) ==
  {p \in 1..Len(log) : log[p].code = "FAULT_INJECTED" /\ log[p].msg.tick = t}
\* the position of the APP_TICK carrying tick t, 0 if there is none
RECURSIVE AppTickPositionFrom(_, _, _)
AppTickPositionFrom(log, t, p) ==
  IF p > Len(log) THEN 0
  ELSE IF log[p].code = "APP_TICK" /\ log[p].msg.tick = t THEN p
  ELSE AppTickPositionFrom(log, t, p + 1)
AppTickPosition(log, t) == AppTickPositionFrom(log, t, 1)

\* C21: a run always completes its fixed tick count: for every configuration
\* with debounce counts >= 1 and every scenario, run_app ends having called
\* tick exactly total_ticks times (tick i at now_ms = i * tick_ms) and returns
\* a log whose first event is BOOT and whose last is SHUTDOWN at
\* t_ms = total_ticks * tick_ms.
C21_RunCompletesItsTicks ==
  /\ run.pc # "failed"
  /\ RunReturned =>
       LET log == run.events
       IN /\ Len(run.nows) = run.cfg.total_ticks
          /\ \A i \in 1..Len(run.nows) : run.nows[i] = (i - 1) * run.cfg.tick_ms
          /\ log[1].code = "BOOT"
          /\ log[Len(log)].code = "SHUTDOWN"
          /\ log[Len(log)].t_ms = run.cfg.total_ticks * run.cfg.tick_ms

\* C22: in a log run_app returned, the FAULT_INJECTED events carrying tick t
\* are, for t < total_ticks, the scenario's faults of tick t, one event each
\* in scenario order, with t_ms = t * tick_ms and the fault's kind and value,
\* placed before the APP_TICK of tick t and after every event of tick t-1;
\* faults with t >= total_ticks yield no event.
C22_FaultInjectedPerScenarioFault ==
  RunReturned =>
    LET log == run.events
        total == run.cfg.total_ticks
        Want(t) == SelectSeq(run.scenario, LAMBDA f : f.tick = t)
    IN /\ \A t \in 0..(total - 1) :
            LET got == SelectSeq(log, LAMBDA e : e.code = "FAULT_INJECTED"
                                                   /\ e.msg.tick = t)
            IN /\ Len(got) = Len(Want(t))
               /\ \A i \in 1..Len(got) :
                    /\ got[i].t_ms = t * run.cfg.tick_ms
                    /\ got[i].msg.kind = Want(t)[i].kind
                    /\ got[i].msg.value = Want(t)[i].value
               /\ \A p \in FaultPositions(log, t) :
                    /\ p < AppTickPosition(log, t)
                    /\ \A q \in 1..Len(log) :
                         (log[q].code # "FAULT_INJECTED"
                            /\ log[q].t_ms < t * run.cfg.tick_ms) => q < p
                    /\ \A q \in FaultPositions(log, t - 1) : q < p
       /\ \A p \in 1..Len(log) :
            log[p].code = "FAULT_INJECTED" => log[p].msg.tick \in 0..(total - 1)

\* C22 witness: a returned log of a scenario that lists the fault of a later
\* tick before the fault of the tick right before it.
C22_Witness ==
  /\ RunReturned
  /\ \E t \in 1..(run.cfg.total_ticks - 1) :
       /\ Cardinality(FaultPositions(run.events, t)) = 1
       /\ Cardinality(FaultPositions(run.events, t - 1)) = 1
       /\ run.scenario[1].tick = t
  /\ Len(run.scenario) = 2

(* ------------------------ the metrics of a run_app log ----------------- *)
\* the collector at one point of the log
PointOk(c) ==
  /\ c.m.clear_durations_count = c.m.alarms_cleared
  /\ c.m.alarms_cleared <= c.m.alarms_raised
  /\ c.m.alarmed_ms >= c.m.clear_durations_ms_total
  /\ ~c.alarmed => c.m.alarmed_ms = c.m.clear_durations_ms_total
\* PointOk before position i of the log and at every later point of it
RECURSIVE EveryPointOkFrom(_, _, _)
EveryPointOkFrom(c, log, i) ==
  /\ PointOk(c)
  /\ i <= Len(log) => EveryPointOkFrom(Consume(c, log[i]), log, i + 1)

\* C32: for the metrics of a log run_app produced, consumed in order by a
\* MetricsCollector with the same tick_ms: every ALARM_CLEARED closes an open
\* window (clear_durations_count = alarms_cleared <= alarms_raised), and at
\* every point of the log alarmed_ms >= clear_durations_ms_total, with
\* equality whenever no alarm window is open.
C32_LogMetricsConsistent ==
  RunReturned => EveryPointOkFrom(LogCollector(run.cfg), run.events, 1)

\* C32 witness: a returned log with two ALARM_RAISED in one window, closed by
\* one ALARM_CLEARED at least 40 ms after it opened.
C32_Witness ==
  /\ RunReturned
  /\ LET c == ConsumeLog(run.cfg, run.events)
     IN /\ c.m.alarms_raised = 2
        /\ c.m.alarms_cleared = 1
        /\ ~c.alarmed
        /\ c.m.clear_durations_ms_total >= 40
        /\ c.m.alarmed_ms = c.m.clear_durations_ms_total

(* ------------------------ raise and clear in the log ------------------- *)
\* the positions of the events with one of the codes in the log
CodePositions(log, codes) == {p \in 1..Len(log) : log[p].code \in codes}
\* the position of the APP_TICK of the latest completed tick, 0 before it
LastAppTick(log) ==
  LET ticks == CodePositions(log, {"APP_TICK"})
  IN IF ticks = {} THEN 0 ELSE CHOOSE p \in ticks : \A q \in ticks : q <= p
\* the latest tick logged a STATE_TRANSITION from Alarmed or PendingClear to
\* Nominal
LeftAlarmForNominal(log) ==
  \E p \in CodePositions(log, {"STATE_TRANSITION"}) :
     /\ p > LastAppTick(log)
     /\ LastAppTick(log) > 0
     /\ log[p].msg.from \in {ALARMED, PENDING_CLEAR}
     /\ log[p].msg.to = NOMINAL
\* every ALARM_RAISED of the log has a later event with one of the codes
RaisedFollowedBy(log, codes) ==
  \A p \in CodePositions(log, {"ALARM_RAISED"}) :
     \E q \in CodePositions(log, codes) : q > p
\* between any two ALARM_RAISED of the log is an event with one of the codes
RaisedSeparatedBy(log, codes) ==
  \A p, q \in CodePositions(log, {"ALARM_RAISED"}) :
     p < q => \E c \in CodePositions(log, codes) : p < c /\ c < q

\* C31 as stated: whenever the machine state is Nominal after a tick, every
\* ALARM_RAISED emitted so far has been followed by an ALARM_CLEARED, and
\* between any two ALARM_RAISED events there is an ALARM_CLEARED.
C31_RaiseClearPairing ==
  /\ run.app.state = NOMINAL => RaisedFollowedBy(run.events, {"ALARM_CLEARED"})
  /\ RaisedSeparatedBy(run.events, {"ALARM_CLEARED"})

\* C31 amended: whenever a tick takes the machine from Alarmed or PendingClear
\* to Nominal, every ALARM_RAISED emitted so far has been followed by an
\* ALARM_CLEARED; whenever the state is Nominal after a tick, every
\* ALARM_RAISED emitted so far has been followed by an ALARM_CLEARED or an
\* ALARM_PENDING_CLEAR; and between any two ALARM_RAISED events there is an
\* ALARM_CLEARED or an ALARM_PENDING_CLEAR.
C31_RaiseClearPairingAmended ==
  /\ (run.app.state = NOMINAL /\ LeftAlarmForNominal(run.events))
        => RaisedFollowedBy(run.events, {"ALARM_CLEARED"})
  /\ run.app.state = NOMINAL
        => RaisedFollowedBy(run.events, {"ALARM_CLEARED", "ALARM_PENDING_CLEAR"})
  /\ RaisedSeparatedBy(run.events, {"ALARM_CLEARED", "ALARM_PENDING_CLEAR"})

\* C31 witness: a tick has just taken the machine from PendingClear to Nominal
\* with ALARM_CLEARED, after two ALARM_RAISED that no ALARM_CLEARED separates.
C31_Witness ==
  /\ run.pc = "loop"
  /\ run.app.state = NOMINAL
  /\ LeftAlarmForNominal(run.events)
  /\ Len(run.events) > 0
  /\ run.events[Len(run.events)].code = "ALARM_CLEARED"
  /\ Cardinality(CodePositions(run.events, {"ALARM_RAISED"})) = 2
  /\ ~RaisedSeparatedBy(run.events, {"ALARM_CLEARED"})

====
